---------------------------- MODULE Spec2Model ----------------------------
(***************************************************************************)
(* Pupillary-distance measurement: the DataSmoother, the measurement       *)
(* state machine, the browser session of main.ts (camera, detector, frame  *)
(* processor, detection loop), and the classes FaceDetector / EyeDetector, *)
(* CameraManager and CardValidator exercised on their own.                 *)
(***************************************************************************)
EXTENDS Integers, Sequences, FiniteSets, TLC

VARIABLES
    \* ---- DataSmoother / MeasurementController
    windowSize,     \* Configuration.smoothing.windowSize of this run
    window,         \* DataSmoother: the retained samples, oldest first
    lastOutlier,    \* the outlier flag reported by the last addValue / isOutlier
    lastSmoothed,   \* the value the last getSmoothedValue() returned
    op,             \* the last operation: [name, arg, lenBefore]
    ctlState,       \* MeasurementState of the controller
    prevState,      \* MeasurementState before the last controller step
    latestResult,   \* the controller's latest result (a rational), <<>> when none
    lostFrames,     \* consecutive MEASURING frames with card or eyes lost
    \* ---- main.ts: module-level instances (0 is null) and the page
    status,         \* the state announced by updateStatusMessage
    cameraManager,  \* the CameraManager instance held (the start that made it)
    faceDetector,   \* the FaceDetector instance held
    frameProcessor, \* the FrameProcessor instance held
    detectionLoop,  \* the loop whose requestAnimationFrame handle is held
    initPc,         \* initializeCamera() call i: idle, getUserMedia, done, failed
    cmStream,       \* CameraManager i: stream is "null" or "held"
    cmVideo,        \* CameraManager i: videoElement is set
    track,          \* the tracks getUserMedia call i returned: none, live, stopped
    fdReady,        \* FaceDetector i: ready (faceMesh created, not closed)
    pendingResolve, \* FaceDetector i: the loop whose detect() promise it resolves
    sendQ,          \* FaceDetector i: images sent and not yet answered (callers)
    srcObject,      \* video element: the stream attached (0 is null)
    metadataPending,\* video element: loadedmetadata is still to fire
    videoPlaying,   \* video element: metadata loaded and play() called
    nLoops,         \* detection loops started so far
    loopPc,         \* detection loop l: none, scheduled, awaiting, cancelled
    awaitOn,        \* detection loop l: the detector whose detect() it awaits
    processed,      \* a frame was processed since the last start
    ev,             \* the last event: [kind, from (status before it)]
    \* ---- one FaceDetector / EyeDetector instance and its callers
    detKind,        \* the class of the instance: "face" or "eye"
    detReady,       \* ready
    detMesh,        \* faceMesh: "null" or "mesh"
    detPending,     \* pendingResolve: the detect call whose promise it resolves (0 is null)
    detSent,        \* images sent and not yet answered: [call, mesh], oldest first;
                    \* mesh is "current", "old" (replaced by loadModel) or "closed"
    detPromise,     \* detect call c: [state, image, value] of the promise returned
    lastEyePosition,\* EyeDetector.lastEyePosition (<<>> is null)
    lastDetections, \* FaceDetector.lastDetections
    detEv,          \* the last detector operation: [name, result]
    \* ---- CardValidator
    cvDetection,    \* the CardDetection presented: [confidence, width, height, angle]
    cvResult,       \* what validate() returned for it: [isValid, reason], <<>> before the call
    \* ---- one CameraManager instance, its callers and the browser
    camStream,      \* stream: 0 is null, n the stream of the n-th initialize() call
    camVideoElement,\* videoElement: 0 is null, else the element
    camSrcObject,   \* video element v: its srcObject (0 is null, else the stream)
    camTrack,       \* the video track of stream n: "none" (no such stream), "live", "ended"
    camCallbacks,   \* which callbacks are registered: [permissionDenied, initializationError]
    camInit,        \* initialize() call n: "idle", "pending", "resolved", "rejected"
    camEv,          \* the last operation: [name, result, error, invoked, prev]
    \* ---- FaceDetector.selectBestFace
    sbDetections,   \* the detections array passed to selectBestFace
    sbImage,        \* the image size passed: [width, height]
    sbResult,       \* [called, value, detections]: whether the call was made, the
                    \* face returned (<<>> is null), the array after the call
    \* ---- one FrameProcessor instance and the clock
    frameTimestamps,\* FrameProcessor.frameTimestamps
    now,            \* performance.now(), in milliseconds
    captured,       \* frames captured since construction, resetFPS() or dispose()
                    \* (history; counts up to FPS_SAMPLE_SIZE + 1)
    fpEv,           \* the last FrameProcessor operation: [name, error, fps]
    \* ---- DataSmoother history
    accepted        \* the values addValue accepted since construction or reset(),
                    \* oldest first (history; the most recent MaxWindow + 1 of them)

smootherVars == <<windowSize, window, lastOutlier, lastSmoothed, op>>
ctlVars == <<ctlState, prevState, latestResult, lostFrames>>
sessionVars ==
    <<status, cameraManager, faceDetector, frameProcessor, detectionLoop, initPc,
      cmStream, cmVideo, track, fdReady, pendingResolve, sendQ, srcObject,
      metadataPending, videoPlaying, nLoops, loopPc, awaitOn, processed, ev>>
detectorVars ==
    <<detKind, detReady, detMesh, detPending, detSent, detPromise,
      lastEyePosition, lastDetections, detEv>>
validatorVars == <<cvDetection, cvResult>>
cameraVars ==
    <<camStream, camVideoElement, camSrcObject, camTrack, camCallbacks, camInit, camEv>>
selectVars == <<sbDetections, sbImage, sbResult>>
frameVars == <<frameTimestamps, now, captured, fpEv>>
classVars == <<detectorVars, validatorVars, cameraVars, selectVars, frameVars>>
unitVars == <<classVars, accepted>>
exceptDetector ==
    <<smootherVars, ctlVars, sessionVars, validatorVars, cameraVars, selectVars,
      frameVars, accepted>>
exceptValidator ==
    <<smootherVars, ctlVars, sessionVars, detectorVars, cameraVars, selectVars,
      frameVars, accepted>>
exceptCamera ==
    <<smootherVars, ctlVars, sessionVars, detectorVars, validatorVars, selectVars,
      frameVars, accepted>>
exceptSelect ==
    <<smootherVars, ctlVars, sessionVars, detectorVars, validatorVars, cameraVars,
      frameVars, accepted>>
exceptFrame ==
    <<smootherVars, ctlVars, sessionVars, detectorVars, validatorVars, cameraVars,
      selectVars, accepted>>
vars == <<smootherVars, ctlVars, sessionVars, unitVars>>

---------------------------------------------------------------------------
(* Bounds of the model *)
MaxWindow == 3
MaxStarts == 2      \* initializeCamera() calls: page load and restart clicks
MaxCalls == 3       \* detect() / detectEyes() calls on one detector
MaxInits == 2       \* initialize() calls on one CameraManager

(* Program constants *)
outlierThreshold == 3
IPD_MIN == 40
IPD_MAX == 85
cardConfidenceThreshold == 60      \* detection.cardConfidenceThreshold 0.6, in percent
aspectRatioTolerance == 100        \* card.aspectRatioTolerance 0.1, in thousandths
maxTiltAngle == 15                 \* card.maxTiltAngle, in degrees
STANDARD_CARD_ASPECT_RATIO == 1586 \* 1.586, in thousandths
CardRealWidthX10 == 856     \* card.realWidth 85.60 mm, in tenths of a millimetre

(* Configurable grace period (frames) for losing card or eyes while MEASURING *)
GraceFrames == 1

\* Sample values (raw IPD in mm) offered to the smoother.
Values == {30, 60, 62, 90}

---------------------------------------------------------------------------
(* Arithmetic helpers: sums over a window, exact rationals *)

RECURSIVE Sum(_)
Sum(s) == IF s = <<>> THEN 0 ELSE Head(s) + Sum(Tail(s))

RECURSIVE SumSq(_)
SumSq(s) == IF s = <<>> THEN 0 ELSE Head(s) * Head(s) + SumSq(Tail(s))

Abs(x) == IF x < 0 THEN -x ELSE x

RECURSIVE Gcd(_, _)
Gcd(a, b) == IF b = 0 THEN a ELSE Gcd(b, a % b)

\* The rational num/den in lowest terms, den > 0.
Rat(num, den) ==
    LET g == Gcd(Abs(num), den)
    IN  <<num \div g, den \div g>>

\* n^2 times the population variance of the window (n = Len(w)).
VarTimesN2(w) == Len(w) * SumSq(w) - Sum(w) * Sum(w)

---------------------------------------------------------------------------
(* DataSmoother *)

\* Mutant of isOutlier: the test is applied to a window without variance too.
isOutlier_NoSigmaGuard(w, value) ==
    /\ Len(w) >= 2
    /\ (Len(w) * value - Sum(w)) * (Len(w) * value - Sum(w))
          > outlierThreshold * outlierThreshold * VarTimesN2(w)

\* isOutlier(value): the z-score test against the current window.
\* |value - mean| > threshold * sigma, with both sides multiplied by n and squared.
isOutlier(w, value) ==
    /\ Len(w) >= 2
    /\ VarTimesN2(w) # 0
    /\ (Len(w) * value - Sum(w)) * (Len(w) * value - Sum(w))
          > outlierThreshold * outlierThreshold * VarTimesN2(w)

\* Mutant of appendSample: a full window drops the newest sample, not the oldest.
appendSample_EvictNewest(w, value, ws) ==
    LET a == Append(w, value)
    IN  IF Len(a) > ws THEN SubSeq(a, 1, ws) ELSE a

\* Mutant of appendSample: the eviction test is off by one.
appendSample_LateEvict(w, value, ws) ==
    LET a == Append(w, value)
    IN  IF Len(a) > ws + 1 THEN Tail(a) ELSE a

\* The window after an accepted sample: append, evict the oldest beyond ws.
appendSample(w, value, ws) ==
    LET a == Append(w, value)
    IN  IF Len(a) > ws THEN Tail(a) ELSE a

\* Mutant of addValue: an outlier is reported but still appended.
addValue_KeepsOutlier(w, value, ws) ==
    [window |-> appendSample(w, value, ws), outlier |-> isOutlier(w, value)]

\* addValue(value, timestamp): the new window and the reported outlier flag.
addValue(w, value, ws) ==
    IF isOutlier(w, value)
    THEN [window |-> w, outlier |-> TRUE]
    ELSE [window |-> appendSample(w, value, ws), outlier |-> FALSE]

\* getSmoothedValue(): the mean of the window; zero when the window is empty.
getSmoothedValue(w) ==
    IF w = <<>> THEN <<0, 1>> ELSE Rat(Sum(w), Len(w))

\* reset(): the cleared window.
reset == <<>>

NoOp == [name |-> "none", arg |-> 0, lenBefore |-> 0]

\* How many accepted values the history keeps: one more than any window holds.
MaxAccepted == MaxWindow + 1

\* The last k elements of s (all of s when it has fewer).
lastK(s, k) ==
    IF Len(s) <= k THEN s ELSE SubSeq(s, Len(s) - k + 1, Len(s))

CallAddValue(v) ==
    /\ window' = addValue(window, v, windowSize).window
    /\ lastOutlier' = addValue(window, v, windowSize).outlier
    /\ accepted' = IF addValue(window, v, windowSize).outlier THEN accepted
                   ELSE lastK(Append(accepted, v), MaxAccepted)
    /\ op' = [name |-> "addValue", arg |-> v, lenBefore |-> Len(window)]
    /\ UNCHANGED <<windowSize, lastSmoothed>>
    /\ UNCHANGED <<ctlVars, sessionVars, classVars>>

CallIsOutlier(v) ==
    /\ lastOutlier' = isOutlier(window, v)
    /\ op' = [name |-> "isOutlier", arg |-> v, lenBefore |-> Len(window)]
    /\ UNCHANGED <<windowSize, window, lastSmoothed>>
    /\ UNCHANGED <<ctlVars, sessionVars, unitVars>>

CallGetSmoothedValue ==
    /\ lastSmoothed' = getSmoothedValue(window)
    /\ op' = [name |-> "getSmoothedValue", arg |-> 0, lenBefore |-> Len(window)]
    /\ UNCHANGED <<windowSize, window, lastOutlier>>
    /\ UNCHANGED <<ctlVars, sessionVars, unitVars>>

CallReset ==
    /\ window' = reset
    /\ accepted' = <<>>
    /\ op' = [name |-> "reset", arg |-> 0, lenBefore |-> Len(window)]
    /\ UNCHANGED <<windowSize, lastOutlier, lastSmoothed>>
    /\ UNCHANGED <<ctlVars, sessionVars, classVars>>

Starts == 1..MaxStarts

\* The page before DOMContentLoaded: no instance, no stream, no loop.
SessionIdle ==
    /\ status = "none"
    /\ cameraManager = 0 /\ faceDetector = 0 /\ frameProcessor = 0
    /\ detectionLoop = 0
    /\ initPc = [i \in Starts |-> "idle"]
    /\ cmStream = [i \in Starts |-> "null"]
    /\ cmVideo = [i \in Starts |-> FALSE]
    /\ track = [i \in Starts |-> "none"]
    /\ fdReady = [i \in Starts |-> FALSE]
    /\ pendingResolve = [i \in Starts |-> 0]
    /\ sendQ = [i \in Starts |-> <<>>]
    /\ srcObject = 0
    /\ metadataPending = FALSE
    /\ videoPlaying = FALSE
    /\ nLoops = 0
    /\ loopPc = [l \in Starts |-> "none"]
    /\ awaitOn = [l \in Starts |-> 0]
    /\ processed = FALSE
    /\ ev = [kind |-> "none", from |-> "none"]

Calls == 1..MaxCalls

NoPromise == [state |-> "none", image |-> 0, value |-> <<>>]

\* A detector as constructed: not ready, no FaceMesh, no pending resolver.
DetectorNew ==
    /\ detReady = FALSE
    /\ detMesh = "null"
    /\ detPending = 0
    /\ detSent = <<>>
    /\ detPromise = [c \in Calls |-> NoPromise]
    /\ lastEyePosition = <<>>
    /\ lastDetections = <<>>
    /\ detEv = [name |-> "new", result |-> "none"]

DetectorIdle == detKind = "face" /\ DetectorNew

\* No card presented to the validator.
ValidatorIdle ==
    /\ cvDetection = [confidence |-> 0, width |-> 0, height |-> 1, angle |-> 0]
    /\ cvResult = <<>>

Inits == 1..MaxInits

VideoElements == {1, 2}

\* A CameraManager as constructed, and video elements without a source.
CameraIdle ==
    /\ camStream = 0
    /\ camVideoElement = 0
    /\ camSrcObject = [v \in VideoElements |-> 0]
    /\ camTrack = [n \in Inits |-> "none"]
    /\ camCallbacks = [permissionDenied |-> FALSE, initializationError |-> FALSE]
    /\ camInit = [n \in Inits |-> "idle"]
    /\ camEv = [name |-> "new", result |-> "none", error |-> "none", invoked |-> {},
                prev |-> "none"]

\* selectBestFace not called yet.
SelectIdle ==
    /\ sbDetections = <<>>
    /\ sbImage = [width |-> 100, height |-> 100]
    /\ sbResult = [called |-> FALSE, value |-> <<>>, detections |-> <<>>]

\* A FrameProcessor as constructed, at time 0.
FrameIdle ==
    /\ frameTimestamps = <<>>
    /\ now = 0
    /\ captured = 0
    /\ fpEv = [name |-> "new", error |-> "none", fps |-> 0]

HistoryIdle == accepted = <<>>

UnitIdle ==
    /\ DetectorIdle /\ ValidatorIdle /\ CameraIdle
    /\ SelectIdle /\ FrameIdle /\ HistoryIdle

CtlIdle ==
    /\ ctlState = "initializing"
    /\ prevState = "initializing"
    /\ latestResult = <<>>
    /\ lostFrames = 0

InitSmoother ==
    /\ windowSize \in 1..MaxWindow
    /\ window = <<>>
    /\ lastOutlier = FALSE
    /\ lastSmoothed = <<0, 1>>
    /\ op = NoOp
    /\ CtlIdle
    /\ SessionIdle
    /\ UnitIdle

NextSmoother ==
    \/ \E v \in Values : CallAddValue(v)
    \/ \E v \in Values : CallIsOutlier(v)
    \/ CallGetSmoothedValue
    \/ CallReset

SpecSmoother == InitSmoother /\ [][NextSmoother]_vars

---------------------------------------------------------------------------
\* C1: after any sequence of addValue, isOutlier, getSmoothedValue and reset
\* calls, for every windowSize >= 1, the smoother retains at most windowSize
\* samples.
C1_WindowBound == Len(window) <= windowSize

\* An accepted addValue on a full window (the eviction case).
C1_Witness ==
    /\ op.name = "addValue"
    /\ op.lenBefore = windowSize
    /\ ~lastOutlier
    /\ Len(window) = windowSize
    /\ windowSize >= 2

\* C2: an addValue whose value lies more than outlierThreshold standard
\* deviations from the mean of a window of at least 2 samples with non-zero
\* deviation is reported as an outlier and leaves the window, and so the
\* smoothed value, exactly as they were.
C2_OutlierExcluded ==
    [][ ( /\ op'.name = "addValue"
          /\ Len(window) >= 2
          /\ Len(window) * SumSq(window) # Sum(window) * Sum(window)
          /\ (Len(window) * op'.arg - Sum(window)) * (Len(window) * op'.arg - Sum(window))
               > outlierThreshold * outlierThreshold * (Len(window) * SumSq(window) - Sum(window) * Sum(window)) )
        => ( /\ lastOutlier'
             /\ window' = window
             /\ getSmoothedValue(window') = getSmoothedValue(window) ) ]_vars

\* An outlier was offered to a window of at least two samples and rejected.
C2_Witness ==
    /\ op.name = "addValue"
    /\ lastOutlier
    /\ op.lenBefore >= 2
    /\ Len(window) = op.lenBefore
    /\ op.arg = 90

---------------------------------------------------------------------------
(* DistanceCalculator *)

\* The value standing for a non-finite number (NaN, +Infinity, -Infinity).
NaN == 1000000

isFinite(x) == x # NaN

\* Mutant of computeIPD: a failing computation yields the number 0.
computeIPD_ZeroOnFailure(eyePixelDistance, cardPixelWidth) ==
    IF ~isFinite(eyePixelDistance) \/ ~isFinite(cardPixelWidth) \/ cardPixelWidth <= 0
    THEN [ok |-> TRUE, ipd |-> 0]
    ELSE [ok |-> TRUE,
          ipd |-> (eyePixelDistance * CardRealWidthX10) \div (cardPixelWidth * 10)]

\* computeIPD(eyePixelDistance, cardPixelWidth, cardRealWidth): millimetres, or
\* an explicit failure when an input is not finite or the card width is not
\* positive.
computeIPD(eyePixelDistance, cardPixelWidth) ==
    IF ~isFinite(eyePixelDistance) \/ ~isFinite(cardPixelWidth) \/ cardPixelWidth <= 0
    THEN [ok |-> FALSE, ipd |-> 0]
    ELSE [ok |-> TRUE,
          ipd |-> (eyePixelDistance * CardRealWidthX10) \div (cardPixelWidth * 10)]

\* isPlausible(ipd): a rational within [IPD_MIN, IPD_MAX].
isPlausible(r) == IPD_MIN * r[2] <= r[1] /\ r[1] <= IPD_MAX * r[2]

---------------------------------------------------------------------------
(* MeasurementController *)

MeasurementState ==
    {"initializing", "waiting_for_face", "face_detected", "waiting_for_card",
     "measuring", "measurement_complete", "error"}

\* The per-frame detection bundle: face, eyes, card and the two pixel measures.
Bundles ==
    [face : {"none", "low", "ok"},
     eyes : {"none", "low", "ok"},
     card : {"none", "invalid", "valid"},
     eyePixelDistance : {10 * v : v \in Values} \cup {NaN},
     cardPixelWidth : {0, CardRealWidthX10, NaN}]

\* Mutant of measurementComplete: the plausibility of the smoothed value is
\* not checked.
measurementComplete_IgnoresPlausibility(w, outlier, ws) ==
    Len(w) = ws /\ ~outlier

\* MEASURING -> MEASUREMENT_COMPLETE: window full, last sample no outlier,
\* smoothed value plausible.
measurementComplete(w, outlier, ws) ==
    Len(w) = ws /\ ~outlier /\ isPlausible(getSmoothedValue(w))

\* The controller's data after one frame in MEASURING with eyes and card present.
measureFrame(b) ==
    LET c == computeIPD(b.eyePixelDistance, b.cardPixelWidth)
        r == addValue(window, c.ipd, windowSize)
    IN  IF ~c.ok
        THEN [state |-> "measuring", window |-> window, outlier |-> lastOutlier,
              result |-> latestResult]
        ELSE [state |-> IF measurementComplete(r.window, r.outlier, windowSize)
                        THEN "measurement_complete" ELSE "measuring",
              window |-> r.window, outlier |-> r.outlier,
              result |-> getSmoothedValue(r.window)]

\* The controller's data carried over a transition to state s.
keepData(s) ==
    [state |-> s, window |-> window, outlier |-> lastOutlier,
     result |-> latestResult, lost |-> 0]

\* Mutant of clearData: the smoother is not reset on re-entry.
clearData_KeepsWindow(s) == keepData(s)

\* The controller's data on (re-)entering an acquisition state s: the smoother
\* is reset and the latest result dropped.
clearData(s) ==
    [state |-> s, window |-> reset, outlier |-> FALSE, result |-> <<>>, lost |-> 0]

\* The transition rules, evaluated once per processed frame in the current state.
processFrame(b) ==
    LET keep(s) == keepData(s)
        cleared(s) == clearData(s)
    IN  CASE ctlState = "waiting_for_face" ->
               IF b.face = "ok" THEN keep("face_detected") ELSE keep(ctlState)
          [] ctlState = "face_detected" ->
               IF b.face = "none" THEN cleared("waiting_for_face")
               ELSE IF b.eyes = "ok" THEN keep("waiting_for_card")
               ELSE keep(ctlState)
          [] ctlState = "waiting_for_card" ->
               IF b.card = "valid" THEN cleared("measuring")
               ELSE IF b.face = "none" THEN cleared("waiting_for_face")
               ELSE keep(ctlState)
          [] ctlState = "measuring" ->
               IF b.eyes # "ok" \/ b.card # "valid"
               THEN IF lostFrames + 1 > GraceFrames
                    THEN (IF b.face = "none" THEN cleared("waiting_for_face")
                          ELSE keep("waiting_for_card"))
                    ELSE [keep("measuring") EXCEPT !.lost = lostFrames + 1]
               ELSE LET m == measureFrame(b)
                    IN  [state |-> m.state, window |-> m.window,
                         outlier |-> m.outlier, result |-> m.result, lost |-> 0]
          [] OTHER -> [keep(ctlState) EXCEPT !.lost = lostFrames]

CtlFrame(b) ==
    LET n == processFrame(b)
    IN  /\ ctlState' = n.state
        /\ prevState' = ctlState
        /\ window' = n.window
        /\ lastOutlier' = n.outlier
        /\ latestResult' = n.result
        /\ lostFrames' = n.lost
        /\ op' = [name |-> "frame", arg |-> b.cardPixelWidth, lenBefore |-> Len(window)]
        /\ UNCHANGED <<windowSize, lastSmoothed, sessionVars, unitVars>>

\* INITIALIZING, collaborators ready.
CtlInitReady ==
    /\ ctlState = "initializing"
    /\ ctlState' = "waiting_for_face"
    /\ prevState' = ctlState
    /\ op' = [name |-> "ready", arg |-> 0, lenBefore |-> Len(window)]
    /\ UNCHANGED <<windowSize, window, lastOutlier, lastSmoothed, latestResult, lostFrames>>
    /\ UNCHANGED <<sessionVars, unitVars>>

\* INITIALIZING, a collaborator failed to initialize.
CtlInitFault ==
    /\ ctlState = "initializing"
    /\ ctlState' = "error"
    /\ prevState' = ctlState
    /\ op' = [name |-> "fault", arg |-> 0, lenBefore |-> Len(window)]
    /\ UNCHANGED <<windowSize, window, lastOutlier, lastSmoothed, latestResult, lostFrames>>
    /\ UNCHANGED <<sessionVars, unitVars>>

\* Mutant of internalErrorFrom: only the states the design's diagram draws an
\* arrow from.
internalErrorFrom_Diagram ==
    {"initializing", "waiting_for_face", "face_detected", "waiting_for_card", "measuring"}

\* The states an unrecoverable internal error is taken from: any but ERROR.
internalErrorFrom == MeasurementState \ {"error"}

CtlInternalError ==
    /\ ctlState \in internalErrorFrom
    /\ ctlState' = "error"
    /\ prevState' = ctlState
    /\ op' = [name |-> "internalError", arg |-> 0, lenBefore |-> Len(window)]
    /\ UNCHANGED <<windowSize, window, lastOutlier, lastSmoothed, latestResult, lostFrames>>
    /\ UNCHANGED <<sessionVars, unitVars>>

\* Mutant of restartState: the restart skips re-initialization.
restartState_Direct == "waiting_for_face"

\* The state shown by the restart handler: cleanup(), then initializeCamera()
\* announces STATUS_MESSAGES.zh.initializing.
restartState == "initializing"

\* The restart button: the session is torn down and initialized again.
CtlRestart ==
    /\ ctlState' = restartState
    /\ prevState' = ctlState
    /\ window' = reset
    /\ lastOutlier' = FALSE
    /\ latestResult' = <<>>
    /\ lostFrames' = 0
    /\ op' = [name |-> "restart", arg |-> 0, lenBefore |-> Len(window)]
    /\ UNCHANGED <<windowSize, lastSmoothed, sessionVars, unitVars>>

InitCtl ==
    /\ windowSize \in 1..MaxWindow
    /\ window = <<>>
    /\ lastOutlier = FALSE
    /\ lastSmoothed = <<0, 1>>
    /\ op = NoOp
    /\ CtlIdle
    /\ SessionIdle
    /\ UnitIdle

NextCtl ==
    \/ \E b \in Bundles : CtlFrame(b)
    \/ CtlInitReady
    \/ CtlInitFault
    \/ CtlInternalError
    \/ CtlRestart

SpecCtl == InitCtl /\ [][NextCtl]_vars
---------------------------------------------------------------------------
(* main.ts: the session.  Every handler runs to completion; an await ends a  *)
(* step, and the step that follows it is the settling of the awaited promise *)
(* (getUserMedia, the detector's result) or a browser event.                 *)

Event(k) == [kind |-> k, from |-> status]

\* Mutant of loadModelReady: loadModel() forgets to set the ready flag.
loadModelReady_NeverReady == FALSE

\* FaceDetector.loadModel(): the ready flag after a successful load.
loadModelReady == TRUE

\* Mutant of statusAfterFrame: a frame without a face leaves the status alone.
statusAfterFrame_KeepsFace(faces) ==
    IF faces > 0 THEN "face_detected" ELSE status

\* Mutant of statusAfterFrame: a frame without a face is announced as an error.
statusAfterFrame_ErrorOnAbsence(faces) ==
    IF faces > 0 THEN "face_detected" ELSE "error"

\* detect(): the status announced for a processed frame with `faces` faces.
statusAfterFrame(faces) ==
    IF faces > 0 THEN "face_detected" ELSE "waiting_for_face"

\* cancelAnimationFrame(detectionLoop): only a callback still scheduled under
\* the held handle is cancelled.
cancelAnimationFrame ==
    [l \in Starts |->
        IF l = detectionLoop /\ loopPc[l] = "scheduled" THEN "cancelled" ELSE loopPc[l]]

\* initializeCamera(), up to its first await: call n creates the instances,
\* announces INITIALIZING and asks for the camera.
initializeCamera(n) ==
    /\ status' = "initializing"
    /\ cameraManager' = n
    /\ faceDetector' = n
    /\ frameProcessor' = n
    /\ initPc' = [initPc EXCEPT ![n] = "getUserMedia"]
    /\ processed' = FALSE

\* cleanup(): cancel the held frame handle, dispose the detector and the frame
\* processor, release the camera, forget the instances.
cleanup ==
    LET g == cameraManager
    IN  /\ loopPc' = cancelAnimationFrame
        /\ detectionLoop' = 0
        /\ fdReady' = [fdReady EXCEPT ![faceDetector] = FALSE]
        /\ cmStream' = [cmStream EXCEPT ![g] = "null"]
        /\ track' = IF cmStream[g] = "held" THEN [track EXCEPT ![g] = "stopped"]
                    ELSE track
        /\ cmVideo' = [cmVideo EXCEPT ![g] = FALSE]
        /\ srcObject' = IF cmVideo[g] THEN 0 ELSE srcObject
        /\ metadataPending' = IF cmVideo[g] THEN FALSE ELSE metadataPending
        /\ videoPlaying' = IF cmVideo[g] THEN FALSE ELSE videoPlaying

\* DOMContentLoaded: the first initializeCamera().
DOMContentLoaded ==
    /\ status = "none"
    /\ initializeCamera(1)
    /\ ev' = Event("start")
    /\ UNCHANGED <<detectionLoop, cmStream, cmVideo, track, fdReady, pendingResolve,
                   sendQ, srcObject, metadataPending, videoPlaying, nLoops, loopPc,
                   awaitOn>>
    /\ UNCHANGED <<smootherVars, ctlVars, unitVars>>

\* The restart button: cleanup(); initializeCamera().
RestartClick ==
    /\ cameraManager >= 1
    /\ cameraManager < MaxStarts
    /\ cleanup
    /\ initializeCamera(cameraManager + 1)
    /\ ev' = Event("restart")
    /\ UNCHANGED <<pendingResolve, sendQ, nLoops, awaitOn>>
    /\ UNCHANGED <<smootherVars, ctlVars, unitVars>>

\* getUserMedia of call i resolves: CameraManager i keeps the stream, then
\* initializeCamera() goes on with the instances held now: loadModel() (which
\* may fail), attachToVideoElement() (which throws without a stream), and the
\* onloadedmetadata handler.
GetUserMediaResolve(i, loadOk) ==
    LET fd == faceDetector
        cm == cameraManager
        streams == [cmStream EXCEPT ![i] = "held"]
    IN  /\ initPc[i] = "getUserMedia"
        /\ cmStream' = streams
        /\ track' = [track EXCEPT ![i] = "live"]
        /\ IF ~loadOk
           THEN /\ status' = "error"
                /\ initPc' = [initPc EXCEPT ![i] = "failed"]
                /\ ev' = Event("loadFail")
                /\ UNCHANGED <<fdReady, cmVideo, srcObject, metadataPending, videoPlaying>>
           ELSE /\ fdReady' = [fdReady EXCEPT ![fd] = loadModelReady]
                /\ IF streams[cm] # "held"
                   THEN /\ status' = "error"
                        /\ initPc' = [initPc EXCEPT ![i] = "failed"]
                        /\ ev' = Event("attachFail")
                        /\ UNCHANGED <<cmVideo, srcObject, metadataPending, videoPlaying>>
                   ELSE /\ cmVideo' = [cmVideo EXCEPT ![cm] = TRUE]
                        /\ srcObject' = cm
                        /\ metadataPending' = TRUE
                        /\ videoPlaying' = FALSE
                        /\ initPc' = [initPc EXCEPT ![i] = "done"]
                        /\ ev' = Event("attached")
                        /\ UNCHANGED status
        /\ UNCHANGED <<cameraManager, faceDetector, frameProcessor, detectionLoop,
                       pendingResolve, sendQ, nLoops, loopPc, awaitOn, processed>>
        /\ UNCHANGED <<smootherVars, ctlVars, unitVars>>

\* getUserMedia of call i rejects (or camera access is unsupported):
\* handleError() runs the callback, initializeCamera() its catch.
GetUserMediaReject(i) ==
    /\ initPc[i] = "getUserMedia"
    /\ status' = "error"
    /\ initPc' = [initPc EXCEPT ![i] = "failed"]
    /\ ev' = Event("cameraFail")
    /\ UNCHANGED <<cameraManager, faceDetector, frameProcessor, detectionLoop,
                   cmStream, cmVideo, track, fdReady, pendingResolve, sendQ,
                   srcObject, metadataPending, videoPlaying, nLoops, loopPc,
                   awaitOn, processed>>
    /\ UNCHANGED <<smootherVars, ctlVars, unitVars>>

\* One run of detect() by loop l up to its await or its end: TRUE when it
\* captured a frame and awaits faceDetector.detect(); FALSE when the video
\* was not ready or captureFrame()/detect() threw.
detectAwaits(ready) ==
    /\ ready
    /\ frameProcessor # 0
    /\ faceDetector # 0
    /\ fdReady[faceDetector]

\* The part of the state one run of detect() by loop l changes.
detectIteration(l, ready, pcs) ==
    IF detectAwaits(ready)
    THEN /\ loopPc' = [pcs EXCEPT ![l] = "awaiting"]
         /\ awaitOn' = [awaitOn EXCEPT ![l] = faceDetector]
         /\ pendingResolve' = [pendingResolve EXCEPT ![faceDetector] = l]
         /\ sendQ' = [sendQ EXCEPT ![faceDetector] = Append(@, l)]
         /\ UNCHANGED detectionLoop
    ELSE /\ loopPc' = [pcs EXCEPT ![l] = "scheduled"]
         /\ detectionLoop' = l
         /\ UNCHANGED <<awaitOn, pendingResolve, sendQ>>

\* loadedmetadata fires: play(), WAITING_FOR_FACE, startDetectionLoop() and the
\* first run of detect().
LoadedMetadata(ready) ==
    /\ metadataPending
    /\ metadataPending' = FALSE
    /\ videoPlaying' = TRUE
    /\ status' = "waiting_for_face"
    /\ ev' = Event("metadata")
    /\ IF faceDetector = 0 \/ frameProcessor = 0
       THEN UNCHANGED <<nLoops, loopPc, awaitOn, pendingResolve, sendQ, detectionLoop>>
       ELSE /\ nLoops' = nLoops + 1
            /\ detectIteration(nLoops + 1, ready, loopPc)
    /\ UNCHANGED <<cameraManager, faceDetector, frameProcessor, initPc, cmStream,
                   cmVideo, track, fdReady, srcObject, processed>>
    /\ UNCHANGED <<smootherVars, ctlVars, unitVars>>

\* The animation frame of loop l: detect() runs again.
Frame(l, ready) ==
    /\ loopPc[l] = "scheduled"
    /\ ready => videoPlaying
    /\ detectIteration(l, ready, loopPc)
    /\ ev' = Event(IF detectAwaits(ready) THEN "detectCall" ELSE "skip")
    /\ UNCHANGED <<status, cameraManager, faceDetector, frameProcessor, initPc,
                   cmStream, cmVideo, track, fdReady, srcObject, metadataPending,
                   videoPlaying, nLoops, processed>>
    /\ UNCHANGED <<smootherVars, ctlVars, unitVars>>

\* The loop whose promise FaceDetector d would resolve now (0: none awaits it).
resolved(d) ==
    LET p == pendingResolve[d]
    IN  IF p # 0 /\ loopPc[p] = "awaiting" /\ awaitOn[p] = d THEN p ELSE 0

\* FaceDetector d gets the result of the oldest image sent (a closed FaceMesh
\* delivers none): processResults() resolves the pending promise, and the
\* loop that awaited it announces the frame and schedules its next run.
DetectResult(d, faces) ==
    LET p == resolved(d)
    IN  /\ sendQ[d] # <<>>
        /\ fdReady[d]
        /\ pendingResolve' = [pendingResolve EXCEPT ![d] = 0]
        /\ sendQ' = [sendQ EXCEPT ![d] =
                        [k \in 1..(Len(@) - 1) |-> IF @[k + 1] = p THEN 0 ELSE @[k + 1]]]
        /\ IF p # 0
           THEN /\ status' = statusAfterFrame(faces)
                /\ loopPc' = [loopPc EXCEPT ![p] = "scheduled"]
                /\ detectionLoop' = p
                /\ processed' = TRUE
                /\ ev' = Event(IF faces > 0 THEN "face" ELSE "noface")
           ELSE /\ ev' = Event("lateResult")
                /\ UNCHANGED <<status, loopPc, detectionLoop, processed>>
        /\ UNCHANGED <<cameraManager, faceDetector, frameProcessor, initPc, cmStream,
                       cmVideo, track, fdReady, srcObject, metadataPending,
                       videoPlaying, nLoops, awaitOn>>
        /\ UNCHANGED <<smootherVars, ctlVars, unitVars>>

\* The oldest send() of FaceDetector d fails: the promise of the call that
\* made it is rejected, detect() logs the error and schedules its next run.
SendFail(d) ==
    LET c == IF sendQ[d] = <<>> THEN 0 ELSE Head(sendQ[d])
    IN  /\ sendQ[d] # <<>>
        /\ sendQ' = [sendQ EXCEPT ![d] = Tail(@)]
        /\ ev' = Event("detectError")
        /\ IF c # 0
           THEN /\ loopPc' = [loopPc EXCEPT ![c] = "scheduled"]
                /\ detectionLoop' = c
           ELSE UNCHANGED <<loopPc, detectionLoop>>
        /\ UNCHANGED <<status, cameraManager, faceDetector, frameProcessor, initPc,
                       cmStream, cmVideo, track, fdReady, pendingResolve, srcObject,
                       metadataPending, videoPlaying, nLoops, awaitOn, processed>>
        /\ UNCHANGED <<smootherVars, ctlVars, unitVars>>

SmootherIdle ==
    /\ windowSize = 1
    /\ window = <<>>
    /\ lastOutlier = FALSE
    /\ lastSmoothed = <<0, 1>>
    /\ op = NoOp

InitMain == SessionIdle /\ SmootherIdle /\ CtlIdle /\ UnitIdle

NextMain ==
    \/ DOMContentLoaded
    \/ RestartClick
    \/ \E i \in Starts, loadOk \in BOOLEAN : GetUserMediaResolve(i, loadOk)
    \/ \E i \in Starts : GetUserMediaReject(i)
    \/ \E ready \in BOOLEAN : LoadedMetadata(ready)
    \/ \E l \in Starts, ready \in BOOLEAN : Frame(l, ready)
    \/ \E d \in Starts, faces \in {0, 1} : DetectResult(d, faces)
    \/ \E d \in Starts : SendFail(d)

SpecMain == InitMain /\ [][NextMain]_vars

\* What the browser and the camera are bound to do: every getUserMedia call
\* settles, a pending loadedmetadata event fires, a scheduled animation frame
\* runs with the video playing, and an open detector that keeps being sent
\* images delivers results.
FairMain ==
    /\ \A i \in Starts :
          WF_vars(GetUserMediaReject(i) \/ \E loadOk \in BOOLEAN : GetUserMediaResolve(i, loadOk))
    /\ WF_vars(\E ready \in BOOLEAN : LoadedMetadata(ready))
    /\ \A l \in Starts : WF_vars(Frame(l, TRUE))
    /\ \A d \in Starts : SF_vars(\E faces \in {0, 1} : DetectResult(d, faces))

SpecMainFair == InitMain /\ [][NextMain]_vars /\ FairMain

---------------------------------------------------------------------------
(* FaceDetector / EyeDetector: one instance, called through its public      *)
(* methods in any order; a step is one call or one callback of the FaceMesh. *)

LEFT_EYE_INDICES == <<33, 133, 159, 145>>
RIGHT_EYE_INDICES == <<362, 263, 386, 374>>

EyeIndices ==
    {LEFT_EYE_INDICES[k] : k \in 1..4} \cup {RIGHT_EYE_INDICES[k] : k \in 1..4}

\* Landmarks of one face: the normalised x of every eye landmark, in tenths.
\* The landmarks of LEFT_EYE_INDICES lie at lx, those of RIGHT_EYE_INDICES
\* at rx.
Landmarks(lx, rx) ==
    [i \in EyeIndices |-> IF i \in {LEFT_EYE_INDICES[k] : k \in 1..4} THEN lx ELSE rx]

\* What MediaPipe reports for an image: the number of faces, the landmarks of
\* the first, the image width.
Results(kind) ==
    IF kind = "eye"
    THEN {[faces |-> 0, landmarks |-> Landmarks(5, 5), width |-> 2]}
         \cup {[faces |-> 1, landmarks |-> Landmarks(e[1], e[2]), width |-> 2] :
                 e \in {<<3, 6>>, <<6, 3>>, <<5, 5>>}}
    ELSE {[faces |-> n, landmarks |-> Landmarks(3, 6), width |-> 2] : n \in 0..2}

\* calculateEyeCenter(): the x of the centre, times the number of landmarks
\* (and in tenths of a pixel).
calculateEyeCenter(landmarks, eyeIndices, width) ==
    Sum([k \in 1..Len(eyeIndices) |-> landmarks[eyeIndices[k]] * width])

\* EyeDetector.processResults(): the eye position of a result, <<>> for null;
\* the pair is <<left.x, right.x>>.
eyePositionOf(results) ==
    IF results.faces > 0
    THEN <<calculateEyeCenter(results.landmarks, LEFT_EYE_INDICES, results.width),
           calculateEyeCenter(results.landmarks, RIGHT_EYE_INDICES, results.width)>>
    ELSE <<>>

\* FaceDetector.processResults(): one detection (its confidence, in percent)
\* per face.
detectionsOf(results) == [i \in 1..results.faces |-> 90]

\* The FaceMesh an image in flight was sent to: the one held, one that
\* loadModel() replaced, one that dispose() closed.
Meshes == {"current", "old", "closed"}

\* Mutant of notInitialized: only the FaceMesh is looked at.
notInitialized_MeshOnly(ready, mesh) == mesh = "null"

\* detect() / detectEyes(): the guard that throws 'not initialized'.
notInitialized(ready, mesh) == ~ready \/ mesh = "null"

\* loadModel(): a new FaceMesh replaces the one held (which is not closed) and
\* ready is set; the FaceMesh constructor or setOptions() may throw.
LoadModel(outcome) ==
    /\ detMesh' = IF outcome = "ctorThrows" THEN detMesh ELSE "mesh"
    /\ detReady' = IF outcome = "ok" THEN TRUE ELSE detReady
    /\ detSent' = IF outcome = "ctorThrows" THEN detSent
                  ELSE [k \in 1..Len(detSent) |->
                          IF detSent[k].mesh = "current"
                          THEN [detSent[k] EXCEPT !.mesh = "old"] ELSE detSent[k]]
    /\ detEv' = [name |-> "loadModel", result |-> outcome]
    /\ UNCHANGED <<detKind, detPending, detPromise, lastEyePosition, lastDetections>>
    /\ UNCHANGED exceptDetector

\* detect(imageData) / detectEyes(imageData), call number c: throws when not
\* initialized; else stores the resolver and sends the image (the canvas may
\* give no context, in which case the call rejects without sending).
Detect(c, context) ==
    /\ detPromise[c].state = "none"
    /\ \A b \in Calls : b < c => detPromise[b].state # "none"
    /\ IF notInitialized(detReady, detMesh)
       THEN /\ detPromise' = [detPromise EXCEPT ![c].state = "rejected"]
            /\ detEv' = [name |-> "detect", result |-> "notInitialized"]
            /\ UNCHANGED <<detPending, detSent>>
       ELSE /\ detPending' = c
            /\ IF context
               THEN /\ detSent' = Append(detSent, [call |-> c, mesh |-> "current"])
                    /\ detPromise' = [detPromise EXCEPT ![c].state = "pending"]
                    /\ detEv' = [name |-> "detect", result |-> "sent"]
               ELSE /\ detPromise' = [detPromise EXCEPT ![c].state = "rejected"]
                    /\ detEv' = [name |-> "detect", result |-> "noContext"]
                    /\ UNCHANGED detSent
    /\ UNCHANGED <<detKind, detReady, detMesh, lastEyePosition, lastDetections>>
    /\ UNCHANGED exceptDetector

\* Mutant of storedEyePosition: a result without a face erases the position.
storedEyePosition_Overwrites(results, last) == eyePositionOf(results)

\* EyeDetector.processResults: lastEyePosition after a result; it is assigned
\* only inside the branch for a result that has face landmarks.
storedEyePosition(results, last) ==
    IF results.faces > 0 THEN eyePositionOf(results) ELSE last

\* The oldest image in flight on FaceMesh m (its place in detSent, 0 if none).
oldest(m) ==
    IF \E k \in 1..Len(detSent) : detSent[k].mesh = m
    THEN CHOOSE k \in 1..Len(detSent) :
            /\ detSent[k].mesh = m
            /\ \A j \in 1..(k - 1) : detSent[j].mesh # m
    ELSE 0

\* detSent without its k-th entry.
answered(k) ==
    [j \in 1..(Len(detSent) - 1) |-> IF j < k THEN detSent[j] ELSE detSent[j + 1]]

\* FaceMesh m (the one held, or one replaced by loadModel(); a closed FaceMesh
\* reports nothing) reports the results for the oldest image sent to it:
\* processResults() records them and resolves the pending promise, if any.
OnResults(results, m) ==
    LET value == IF detKind = "eye" THEN eyePositionOf(results) ELSE detectionsOf(results)
        k == oldest(m)
    IN  /\ m # "closed"
        /\ k # 0
        /\ results \in Results(detKind)
        /\ detSent' = answered(k)
        /\ lastEyePosition' = IF detKind = "eye"
                              THEN storedEyePosition(results, lastEyePosition)
                              ELSE lastEyePosition
        /\ lastDetections' = IF detKind = "face" THEN value ELSE lastDetections
        /\ detPromise' =
              IF detPending # 0 /\ detPromise[detPending].state = "pending"
              THEN [detPromise EXCEPT ![detPending] =
                       [state |-> "resolved", image |-> detSent[k].call, value |-> value]]
              ELSE detPromise
        /\ detPending' = 0
        /\ detEv' = [name |-> "onResults", result |-> "none"]
        /\ UNCHANGED <<detKind, detReady, detMesh>>
        /\ UNCHANGED exceptDetector

\* send() of the oldest image on FaceMesh m fails: the promise of the call
\* that sent it is rejected (a promise already settled stays as it is).
SendRejected(m) ==
    LET k == oldest(m)
        c == detSent[k].call
    IN  /\ k # 0
        /\ detSent' = answered(k)
        /\ detPromise' = IF detPromise[c].state = "pending"
                         THEN [detPromise EXCEPT ![c].state = "rejected"]
                         ELSE detPromise
        /\ detEv' = [name |-> "sendRejected", result |-> "none"]
        /\ UNCHANGED <<detKind, detReady, detMesh, detPending, lastEyePosition,
                       lastDetections>>
        /\ UNCHANGED exceptDetector

\* dispose(): closes the FaceMesh held, clears ready and the last result.
Dispose ==
    /\ detMesh' = "null"
    /\ detReady' = FALSE
    /\ detSent' = IF detMesh = "null" THEN detSent
                  ELSE [k \in 1..Len(detSent) |->
                          IF detSent[k].mesh = "current"
                          THEN [detSent[k] EXCEPT !.mesh = "closed"] ELSE detSent[k]]
    /\ lastEyePosition' = <<>>
    /\ lastDetections' = <<>>
    /\ detEv' = [name |-> "dispose", result |-> "none"]
    /\ UNCHANGED <<detKind, detPending, detPromise>>
    /\ UNCHANGED exceptDetector

InitDetector ==
    /\ detKind \in {"face", "eye"}
    /\ DetectorNew
    /\ SessionIdle /\ SmootherIdle /\ CtlIdle /\ ValidatorIdle /\ CameraIdle
    /\ SelectIdle /\ FrameIdle /\ HistoryIdle

NextDetector ==
    \/ \E outcome \in {"ok", "ctorThrows", "optionsThrow"} : LoadModel(outcome)
    \/ \E c \in Calls, context \in BOOLEAN : Detect(c, context)
    \/ \E results \in Results("face") \cup Results("eye"), m \in Meshes : OnResults(results, m)
    \/ \E m \in Meshes : SendRejected(m)
    \/ Dispose

SpecDetector == InitDetector /\ [][NextDetector]_vars

---------------------------------------------------------------------------
(* CardValidator *)

\* The checks of validate(), in the order their reasons are reported, each
\* with whether the detection fails it.  The aspect-ratio check
\* |width/height - 1.586| / 1.586 > tolerance is cleared of its divisions
\* (height > 0).
validationChecks(d) ==
    <<[reason |-> "LowConfidence",
       fails |-> d.confidence < cardConfidenceThreshold],
      [reason |-> "AspectRatioOutOfRange",
       fails |-> Abs(1000 * d.width - STANDARD_CARD_ASPECT_RATIO * d.height) * 1000
                    > aspectRatioTolerance * STANDARD_CARD_ASPECT_RATIO * d.height],
      [reason |-> "TiltTooHigh",
       fails |-> Abs(d.angle) > maxTiltAngle]>>

\* Mutant of reportOrder: the tilt is diagnosed before the confidence.
reportOrder_TiltFirst == <<3, 1, 2>>

\* The order in which failing checks are reported.
reportOrder == <<1, 2, 3>>

\* validate(detection, config): valid only if no check fails; the reason is
\* that of the first failing check.
validate(d) ==
    LET checks == validationChecks(d)
        failing == SelectSeq(reportOrder, LAMBDA k : checks[k].fails)
    IN  [isValid |-> \A k \in 1..Len(checks) : ~checks[k].fails,
         reason |-> IF failing = <<>> THEN "OK" ELSE checks[Head(failing)].reason]

\* The detections presented: confidence in percent, width and height in
\* pixels (height > 0), angle in degrees.
CardDetections ==
    [confidence : {50, 60, 90},
     width : {140, 143, 159, 174, 175},
     height : {100},
     angle : {-20, -15, 0, 15, 16}]

\* A detected card is presented to the validator.
CardDetected(d) ==
    /\ cvDetection' = d
    /\ cvResult' = <<>>
    /\ UNCHANGED exceptValidator

\* validate() is called on the card presented.
CallValidate ==
    /\ cvResult = <<>>
    /\ cvResult' = validate(cvDetection)
    /\ UNCHANGED cvDetection
    /\ UNCHANGED exceptValidator

InitValidator ==
    /\ cvDetection \in CardDetections
    /\ cvResult = <<>>
    /\ SessionIdle /\ SmootherIdle /\ CtlIdle /\ DetectorIdle /\ CameraIdle
    /\ SelectIdle /\ FrameIdle /\ HistoryIdle

NextValidator ==
    \/ \E d \in CardDetections : CardDetected(d)
    \/ CallValidate

SpecValidator == InitValidator /\ [][NextValidator]_vars

---------------------------------------------------------------------------
(* CameraManager: one instance, called through its public methods in any    *)
(* order; getUserMedia settles in a step of its own.                         *)

CameraErrors ==
    {"NotSupportedError", "NotAllowedError", "PermissionDeniedError",
     "NotFoundError", "NotReadableError"}

NoStreamMessage == "No stream available. Call initialize() first."

CamEvent(name, result, error, invoked) ==
    [name |-> name, result |-> result, error |-> error, invoked |-> invoked,
     prev |-> camEv.name]

\* Mutant of isPermissionDenied: PermissionDeniedError is not recognised.
isPermissionDenied_OneName(error) == error = "NotAllowedError"

\* handleError(): the error names routed to the permission-denied callback.
isPermissionDenied(error) ==
    error = "NotAllowedError" \/ error = "PermissionDeniedError"

\* handleError(error): the callbacks invoked with the error.
handleError(error) ==
    IF isPermissionDenied(error)
    THEN (IF camCallbacks.permissionDenied THEN {"permissionDenied"} ELSE {})
    ELSE (IF camCallbacks.initializationError THEN {"initializationError"} ELSE {})

\* Mutant of trackAfterStop: stop() leaves the track live.
trackAfterStop_Live == "live"

\* MediaStreamTrack.stop(): the readyState of a stopped track.
trackAfterStop == "ended"

\* Mutant of noStream: attachToVideoElement() never throws.
noStream_Never(stream) == FALSE

\* attachToVideoElement(): the guard that throws.
noStream(stream) == stream = 0

\* onPermissionDenied(callback)
OnPermissionDenied ==
    /\ camCallbacks' = [camCallbacks EXCEPT !.permissionDenied = TRUE]
    /\ camEv' = CamEvent("onPermissionDenied", "ok", "none", {})
    /\ UNCHANGED <<camStream, camVideoElement, camSrcObject, camTrack, camInit>>
    /\ UNCHANGED exceptCamera

\* onInitializationError(callback)
OnInitializationError ==
    /\ camCallbacks' = [camCallbacks EXCEPT !.initializationError = TRUE]
    /\ camEv' = CamEvent("onInitializationError", "ok", "none", {})
    /\ UNCHANGED <<camStream, camVideoElement, camSrcObject, camTrack, camInit>>
    /\ UNCHANGED exceptCamera

\* initialize(), call n, up to its await: without camera support it runs
\* handleError() and rejects at once; else it awaits getUserMedia.
Initialize(n, supported) ==
    /\ camInit[n] = "idle"
    /\ \A k \in Inits : k < n => camInit[k] # "idle"
    /\ IF supported
       THEN /\ camInit' = [camInit EXCEPT ![n] = "pending"]
            /\ camEv' = CamEvent("initialize", "pending", "none", {})
       ELSE /\ camInit' = [camInit EXCEPT ![n] = "rejected"]
            /\ camEv' = CamEvent("initializeRejected", "NotSupportedError",
                                 "NotSupportedError", handleError("NotSupportedError"))
    /\ UNCHANGED <<camStream, camVideoElement, camSrcObject, camTrack, camCallbacks>>
    /\ UNCHANGED exceptCamera

\* getUserMedia of call n resolves: the stream is stored and returned.
GetUserMediaResolved(n) ==
    /\ camInit[n] = "pending"
    /\ camStream' = n
    /\ camTrack' = [camTrack EXCEPT ![n] = "live"]
    /\ camInit' = [camInit EXCEPT ![n] = "resolved"]
    /\ camEv' = CamEvent("initializeResolved", "stream", "none", {})
    /\ UNCHANGED <<camVideoElement, camSrcObject, camCallbacks>>
    /\ UNCHANGED exceptCamera

\* getUserMedia of call n rejects with `error`: handleError(), rethrow.
GetUserMediaRejected(n, error) ==
    /\ camInit[n] = "pending"
    /\ camInit' = [camInit EXCEPT ![n] = "rejected"]
    /\ camEv' = CamEvent("initializeRejected", error, error, handleError(error))
    /\ UNCHANGED <<camStream, camVideoElement, camSrcObject, camTrack, camCallbacks>>
    /\ UNCHANGED exceptCamera

\* release(): stop the tracks of the stream held, forget it; clear the source
\* of the video element held, forget it.
Release ==
    /\ camTrack' = IF camStream # 0 THEN [camTrack EXCEPT ![camStream] = trackAfterStop]
                   ELSE camTrack
    /\ camStream' = 0
    /\ camSrcObject' = IF camVideoElement # 0
                       THEN [camSrcObject EXCEPT ![camVideoElement] = 0]
                       ELSE camSrcObject
    /\ camVideoElement' = 0
    /\ camEv' = CamEvent("release", "ok", "none", {})
    /\ UNCHANGED <<camCallbacks, camInit>>
    /\ UNCHANGED exceptCamera

\* attachToVideoElement(v)
AttachToVideoElement(v) ==
    /\ IF noStream(camStream)
       THEN /\ camEv' = CamEvent("attachToVideoElement", NoStreamMessage, "none", {})
            /\ UNCHANGED <<camVideoElement, camSrcObject>>
       ELSE /\ camVideoElement' = v
            /\ camSrcObject' = [camSrcObject EXCEPT ![v] = camStream]
            /\ camEv' = CamEvent("attachToVideoElement", "ok", "none", {})
    /\ UNCHANGED <<camStream, camTrack, camCallbacks, camInit>>
    /\ UNCHANGED exceptCamera

\* getStream()
GetStream ==
    /\ camEv' = CamEvent("getStream", IF camStream = 0 THEN "null" ELSE "stream",
                         "none", {})
    /\ UNCHANGED <<camStream, camVideoElement, camSrcObject, camTrack, camCallbacks,
                   camInit>>
    /\ UNCHANGED exceptCamera

\* getResolution(): null without a stream, else the settings of its video track.
GetResolution ==
    /\ camEv' = CamEvent("getResolution",
                         IF camStream = 0 THEN "null" ELSE "resolution", "none", {})
    /\ UNCHANGED <<camStream, camVideoElement, camSrcObject, camTrack, camCallbacks,
                   camInit>>
    /\ UNCHANGED exceptCamera

\* isActive(): a stream is held and its video track is live.
IsActive ==
    /\ camEv' = CamEvent("isActive",
                         IF camStream = 0 THEN "false"
                         ELSE IF camTrack[camStream] = "live" THEN "true" ELSE "false",
                         "none", {})
    /\ UNCHANGED <<camStream, camVideoElement, camSrcObject, camTrack, camCallbacks,
                   camInit>>
    /\ UNCHANGED exceptCamera

\* The camera behind stream n goes away: its track ends.
TrackEnded(n) ==
    /\ camTrack[n] = "live"
    /\ camTrack' = [camTrack EXCEPT ![n] = "ended"]
    /\ camEv' = CamEvent("trackEnded", "none", "none", {})
    /\ UNCHANGED <<camStream, camVideoElement, camSrcObject, camCallbacks, camInit>>
    /\ UNCHANGED exceptCamera

InitCamera ==
    /\ CameraIdle
    /\ SessionIdle /\ SmootherIdle /\ CtlIdle /\ DetectorIdle /\ ValidatorIdle
    /\ SelectIdle /\ FrameIdle /\ HistoryIdle

NextCamera ==
    \/ OnPermissionDenied
    \/ OnInitializationError
    \/ \E n \in Inits, supported \in BOOLEAN : Initialize(n, supported)
    \/ \E n \in Inits : GetUserMediaResolved(n)
    \/ \E n \in Inits, error \in CameraErrors \ {"NotSupportedError"} :
          GetUserMediaRejected(n, error)
    \/ Release
    \/ \E v \in VideoElements : AttachToVideoElement(v)
    \/ GetStream
    \/ GetResolution
    \/ IsActive
    \/ \E n \in Inits : TrackEnded(n)

SpecCamera == InitCamera /\ [][NextCamera]_vars

---------------------------------------------------------------------------
\* C4: loss of the face is acted on immediately.  When the status is
\* FACE_DETECTED and a processed frame has no face, the status is
\* WAITING_FOR_FACE as soon as that frame has been handled.
C4_FaceLossImmediate ==
    [][(ev'.kind = "noface" /\ status = "face_detected")
          => status' = "waiting_for_face"]_vars

C4_Witness ==
    /\ ev.kind = "noface"
    /\ ev.from = "face_detected"
    /\ status = "waiting_for_face"

\* C5: once the session shows ERROR, no frame of the detection loop changes
\* the status.
FrameEvents == {"skip", "detectCall", "detectError", "face", "noface", "lateResult"}

C5_ErrorSticky ==
    [][(status = "error" /\ ev'.kind \in FrameEvents) => status' = "error"]_vars

\* C9: a start that follows a stop eventually processes frames, unless the
\* camera or the model fails or the session is stopped again.
C9_StartUsable ==
    \A g \in Starts :
        (cameraManager = g) ~> (cameraManager # g \/ initPc[g] = "failed" \/ processed)

\* Session 2 was started while session 1 still awaited the camera, and it
\* processes frames.
C9_Witness ==
    /\ cameraManager = 2
    /\ initPc[1] = "getUserMedia"
    /\ processed

\* C10: at most one detect iteration is scheduled or in progress.
activeLoop(l) ==
    \/ loopPc[l] = "scheduled"
    \/ loopPc[l] = "awaiting" /\ fdReady[awaitOn[l]]

C10_OneIteration == Cardinality({l \in Starts : activeLoop(l)}) <= 1

---------------------------------------------------------------------------
\* C11: one bundle per frame.  The value a detect() / detectEyes() call
\* resolves with is the result computed for the image that call submitted.
C11_OwnImage ==
    \A c \in Calls : detPromise[c].state = "resolved" => detPromise[c].image = c

---------------------------------------------------------------------------
\* C12: transient absence is not an error and is retried.  A processed frame
\* without a face announces waiting_for_face, and every detect iteration that
\* ends (with a face, without one, skipped or after a throw) has scheduled the
\* next one.
C12_AbsenceRetried ==
    [][/\ ev'.kind = "noface" => status' = "waiting_for_face"
       /\ \A l \in Starts :
             (loopPc[l] = "awaiting" /\ loopPc'[l] # "awaiting")
                => (loopPc'[l] = "scheduled" /\ detectionLoop' = l)
       /\ ev'.kind = "skip" =>
             \E l \in Starts : /\ loopPc[l] = "scheduled"
                               /\ loopPc'[l] = "scheduled"
                               /\ detectionLoop' = l]_vars

C12_Witness ==
    /\ ev.kind = "noface"
    /\ status = "waiting_for_face"
    /\ detectionLoop # 0
    /\ loopPc[detectionLoop] = "scheduled"

---------------------------------------------------------------------------
\* C13: validate() is deterministic in its diagnosis.  The reason is
\* LowConfidence if confidence < cardConfidenceThreshold, else
\* AspectRatioOutOfRange if |width/height - 1.586| / 1.586 exceeds the
\* tolerance, else TiltTooHigh if |angle| > maxTiltAngle, else OK; isValid is
\* true exactly when the reason is OK.
C13_FirstFailingReason ==
    cvResult # <<>> =>
        LET d == cvDetection
            ratioOff == IF 1000 * d.width >= 1586 * d.height
                        THEN 1000 * d.width - 1586 * d.height
                        ELSE 1586 * d.height - 1000 * d.width
        IN  /\ cvResult.reason =
                  IF d.confidence < cardConfidenceThreshold THEN "LowConfidence"
                  ELSE IF 1000 * ratioOff > aspectRatioTolerance * 1586 * d.height
                       THEN "AspectRatioOutOfRange"
                  ELSE IF d.angle > maxTiltAngle \/ d.angle < -maxTiltAngle THEN "TiltTooHigh"
                  ELSE "OK"
            /\ cvResult.isValid <=> cvResult.reason = "OK"

\* A card failing both the confidence and the tilt check was diagnosed.
C13_Witness ==
    /\ cvResult # <<>>
    /\ cvDetection.confidence < 60
    /\ cvDetection.angle > 15
    /\ cvResult.reason = "LowConfidence"

---------------------------------------------------------------------------
\* C14: a frame whose IPD computation fails contributes nothing to smoothing.
\* computeIPD fails for a card width <= 0 or a non-finite input, and a
\* MEASURING frame with such a bundle leaves the smoother's window and the
\* latest result as they were.
C14_FailedFrameSkipped ==
    [][\A b \in Bundles :
          (b.cardPixelWidth <= 0 \/ b.cardPixelWidth = NaN \/ b.eyePixelDistance = NaN)
             => /\ ~computeIPD(b.eyePixelDistance, b.cardPixelWidth).ok
                /\ (ctlState = "measuring" /\ b.eyes = "ok" /\ b.card = "valid" /\ CtlFrame(b))
                      => (window' = window /\ latestResult' = latestResult)]_vars

\* A MEASURING frame with eyes and a valid card of pixel width 0 was
\* processed while the window held samples.
C14_Witness ==
    /\ op.name = "frame"
    /\ op.arg = 0
    /\ prevState = "measuring"
    /\ ctlState = "measuring"
    /\ lostFrames = 0
    /\ window # <<>>

---------------------------------------------------------------------------
(* Status messages *)

\* Configuration.ui.language
Languages == {"zh", "en"}

\* Mutant of STATUS_MESSAGES: the English table has no message for
\* measurement_complete.
STATUS_MESSAGES_NoComplete ==
    [zh |-> [initializing |-> 10,
           waiting_for_face |-> 6,
           face_detected |-> 6,
           waiting_for_card |-> 7,
           measuring |-> 6,
           measurement_complete |-> 4,
           error |-> 4,
           permission_denied |-> 8,
           camera_not_found |-> 9,
           camera_in_use |-> 12,
           card_tilted |-> 10],
     en |-> [initializing |-> 22,
           waiting_for_face |-> 22,
           face_detected |-> 13,
           waiting_for_card |-> 26,
           measuring |-> 12,
           error |-> 17,
           permission_denied |-> 26,
           camera_not_found |-> 25,
           camera_in_use |-> 43,
           card_tilted |-> 33]]

\* STATUS_MESSAGES: per language and key, the message, given by its length
\* in characters.
STATUS_MESSAGES ==
    [zh |-> [initializing |-> 10,
           waiting_for_face |-> 6,
           face_detected |-> 6,
           waiting_for_card |-> 7,
           measuring |-> 6,
           measurement_complete |-> 4,
           error |-> 4,
           permission_denied |-> 8,
           camera_not_found |-> 9,
           camera_in_use |-> 12,
           card_tilted |-> 10],
     en |-> [initializing |-> 22,
           waiting_for_face |-> 22,
           face_detected |-> 13,
           waiting_for_card |-> 26,
           measuring |-> 12,
           measurement_complete |-> 20,
           error |-> 17,
           permission_denied |-> 26,
           camera_not_found |-> 25,
           camera_in_use |-> 43,
           card_tilted |-> 33]]

---------------------------------------------------------------------------
\* C15: the state-to-guidance mapping is total.  For every MeasurementState
\* (so for the state the controller is in) and every configured language,
\* STATUS_MESSAGES has a non-empty message under the state's string value.
C15_GuidanceTotal ==
    /\ ctlState \in MeasurementState
    /\ \A lang \in Languages, st \in MeasurementState :
          /\ lang \in DOMAIN STATUS_MESSAGES
          /\ st \in DOMAIN STATUS_MESSAGES[lang]
          /\ STATUS_MESSAGES[lang][st] > 0

C15_Witness ==
    /\ ctlState = "measurement_complete"
    /\ \A lang \in Languages : STATUS_MESSAGES[lang][ctlState] > 0

---------------------------------------------------------------------------
\* C16: every EyePosition the eye detector hands out or stores has
\* left.x < right.x.
C16_LeftOfRight ==
    detKind = "eye" =>
        /\ lastEyePosition # <<>> => lastEyePosition[1] < lastEyePosition[2]
        /\ \A c \in Calls :
              (detPromise[c].state = "resolved" /\ detPromise[c].value # <<>>)
                 => detPromise[c].value[1] < detPromise[c].value[2]

---------------------------------------------------------------------------
\* C17: error routing of initialize().  When camera access is unsupported or
\* getUserMedia rejects, initialize() rejects with that error; the
\* permission-denied callback is invoked (if registered) exactly for
\* NotAllowedError and PermissionDeniedError, the initialization-error
\* callback (if registered) exactly for every other error, and the stream
\* held is unchanged.
C17_ErrorRouting ==
    [][camEv'.name = "initializeRejected" =>
          LET e == camEv'.error
              denied == e \in {"NotAllowedError", "PermissionDeniedError"}
          IN  /\ camEv'.result = e
              /\ "permissionDenied" \in camEv'.invoked
                    <=> (denied /\ camCallbacks.permissionDenied)
              /\ "initializationError" \in camEv'.invoked
                    <=> (~denied /\ camCallbacks.initializationError)
              /\ camStream' = camStream]_vars

\* With both callbacks registered and a stream held, a later initialize() was
\* rejected with PermissionDeniedError, routed to the permission-denied
\* callback alone.
C17_Witness ==
    /\ camEv.name = "initializeRejected"
    /\ camEv.error = "PermissionDeniedError"
    /\ camEv.invoked = {"permissionDenied"}
    /\ camCallbacks.initializationError
    /\ camStream # 0

---------------------------------------------------------------------------
\* C18 as stated: release() does not throw, and after it no stream is held,
\* the track of the stream that was held is stopped, and every video element
\* that stream was attached to has srcObject null.
C18_ReleaseClearsEveryElement ==
    [][camEv'.name = "release" =>
          /\ camEv'.result = "ok"
          /\ camStream' = 0
          /\ camStream # 0 => camTrack'[camStream] = "ended"
          /\ \A v \in VideoElements :
                (camStream # 0 /\ camSrcObject[v] = camStream) => camSrcObject'[v] = 0]_vars

\* C18 amended: release() does not throw, and after it no stream is held, the
\* track of the stream that was held is stopped, and the video element of the
\* latest attachToVideoElement() has srcObject null.
C18_ReleaseClearsSession ==
    [][camEv'.name = "release" =>
          /\ camEv'.result = "ok"
          /\ camStream' = 0
          /\ camVideoElement' = 0
          /\ camStream # 0 => camTrack'[camStream] = "ended"
          /\ camVideoElement # 0 => camSrcObject'[camVideoElement] = 0]_vars

\* release() was called twice in a row, the first time with a stream held.
C18_Witness ==
    /\ camEv.name = "release"
    /\ camEv.prev = "release"
    /\ \E n \in Inits : camTrack[n] = "ended"
    /\ camStream = 0

---------------------------------------------------------------------------
\* C19: while no stream is held, getStream() and getResolution() return
\* null, isActive() returns false, and attachToVideoElement() throws
\* 'No stream available. Call initialize() first.' and changes neither the
\* video elements nor the manager.
C19_NoStream ==
    [][camStream = 0 =>
          /\ camEv'.name = "getStream" => camEv'.result = "null"
          /\ camEv'.name = "getResolution" => camEv'.result = "null"
          /\ camEv'.name = "isActive" => camEv'.result = "false"
          /\ camEv'.name = "attachToVideoElement" =>
                /\ camEv'.result = "No stream available. Call initialize() first."
                /\ UNCHANGED <<camStream, camVideoElement, camSrcObject, camTrack,
                               camCallbacks, camInit>>]_vars

\* attachToVideoElement() threw after release() of a manager that had been
\* initialized.
C19_Witness ==
    /\ camEv.name = "attachToVideoElement"
    /\ camEv.result = NoStreamMessage
    /\ camEv.prev = "release"
    /\ \E n \in Inits : camInit[n] = "resolved"

---------------------------------------------------------------------------
\* C20: the readiness gate.  ready is false at construction, becomes true
\* only by a loadModel() that succeeds and is false after dispose(); a
\* detect() / detectEyes() call made while not ready is rejected with the
\* 'not initialized' error, stores no resolver and sends no image.
C20_ReadinessGate ==
    /\ ~detReady
    /\ [][/\ detReady' => (detReady \/ (detEv'.name = "loadModel" /\ detEv'.result = "ok"))
          /\ detEv'.name = "dispose" => ~detReady'
          /\ (detEv'.name = "detect" /\ ~detReady) =>
                /\ detEv'.result = "notInitialized"
                /\ detPending' = detPending
                /\ detSent' = detSent
                /\ \E c \in Calls : /\ detPromise[c].state = "none"
                                    /\ detPromise'[c].state = "rejected"]_vars

\* A detector that had resolved a detection was disposed, and the next call
\* was rejected as not initialized.
C20_Witness ==
    /\ detEv.name = "detect"
    /\ detEv.result = "notInitialized"
    /\ ~detReady
    /\ \E c \in Calls : detPromise[c].state = "resolved"

---------------------------------------------------------------------------
(* FaceDetector.selectBestFace, a pure function of the detections and the   *)
(* image size.  Scores are kept exact: every score below is the code's      *)
(* totalScore multiplied by 20 * imageWidth * imageHeight, and the faces    *)
(* offered lie where the distance from the image centre is rational.        *)

MaxFaces == 3       \* detections in one call of selectBestFace

\* Math.sqrt on a perfect square, by bisection over lo..hi.
RECURSIVE sqrtBetween(_, _, _)
sqrtBetween(n, lo, hi) ==
    IF lo = hi THEN lo
    ELSE LET mid == (lo + hi + 1) \div 2
         IN  IF mid * mid <= n THEN sqrtBetween(n, mid, hi)
             ELSE sqrtBetween(n, lo, mid - 1)

\* totalScore of one face: sizeScore * 0.7 + centralityScore * 0.3, times
\* 20 * imageWidth * imageHeight.  With dx2 and dy2 twice the offsets of the
\* face centre from the image centre, distanceFromCenter is
\* sqrt(dx2^2 * H^2 + dy2^2 * W^2) / (2 * W * H).
totalScore(face, imageWidth, imageHeight) ==
    LET b == face.boundingBox
        faceArea == b.width * b.height
        dx2 == 2 * b.x + b.width - imageWidth
        dy2 == 2 * b.y + b.height - imageHeight
        n == dx2 * dx2 * imageHeight * imageHeight
               + dy2 * dy2 * imageWidth * imageWidth
    IN  14 * faceArea + 6 * imageWidth * imageHeight
          - 3 * sqrtBetween(n, 0, 2 * imageWidth * imageHeight)

\* detections.map(face => ({ face, score })).
scoredFaces(detections, imageWidth, imageHeight) ==
    [i \in 1..Len(detections) |->
        [face |-> detections[i],
         score |-> totalScore(detections[i], imageWidth, imageHeight)]]

\* Mutant of staysBefore: an equal score lets the later element pass.
staysBefore_Strict(a, b) == a.score > b.score

\* The comparator (a, b) => b.score - a.score under a stable sort: a, which
\* stands earlier, stays before b unless b scores strictly higher.
staysBefore(a, b) == a.score >= b.score

\* Array.prototype.sort with that comparator: stable, by descending score.
RECURSIVE insertSorted(_, _)
insertSorted(sorted, e) ==
    IF sorted = <<>> THEN <<e>>
    ELSE IF staysBefore(Head(sorted), e)
         THEN <<Head(sorted)>> \o insertSorted(Tail(sorted), e)
         ELSE <<e>> \o sorted

RECURSIVE sortByScore(_)
sortByScore(scored) ==
    IF scored = <<>> THEN <<>>
    ELSE insertSorted(sortByScore(SubSeq(scored, 1, Len(scored) - 1)),
                      scored[Len(scored)])

\* selectBestFace(detections, imageWidth, imageHeight); <<>> is null.
selectBestFace(detections, imageWidth, imageHeight) ==
    IF Len(detections) = 0 THEN <<>>
    ELSE IF Len(detections) = 1 THEN detections[1]
    ELSE sortByScore(scoredFaces(detections, imageWidth, imageHeight))[1].face

\* The image sizes offered.
Images == {[width |-> 100, height |-> 100], [width |-> 200, height |-> 100]}

\* A detection of size w x h whose centre lies (ox, oy) tenths of the image
\* size away from the image centre.
faceAt(img, ox, oy, w, h, confidence) ==
    [boundingBox |->
        [x |-> img.width \div 2 + (ox * img.width) \div 10 - w \div 2,
         y |-> img.height \div 2 + (oy * img.height) \div 10 - h \div 2,
         width |-> w, height |-> h],
     confidence |-> confidence]

\* The detections offered for an image: central small and large faces, two
\* faces equally far from the centre, an off-axis face, and a face that
\* differs from the first in confidence only.
Faces(img) ==
    {faceAt(img, 0, 0, 20, 20, 90), faceAt(img, 0, 0, 40, 40, 90),
     faceAt(img, -3, 0, 20, 20, 90), faceAt(img, 0, -3, 20, 20, 90),
     faceAt(img, 3, -4, 40, 20, 90), faceAt(img, 0, 0, 20, 20, 50)}

DetectionLists(img) ==
    UNION {[1..n -> Faces(img)] : n \in 0..MaxFaces}

\* One call of selectBestFace; the array is read, never written (map() builds
\* the array that is sorted).
CallSelectBestFace ==
    /\ ~sbResult.called
    /\ sbResult' = [called |-> TRUE,
                    value |-> selectBestFace(sbDetections, sbImage.width,
                                             sbImage.height),
                    detections |-> sbDetections]
    /\ UNCHANGED <<sbDetections, sbImage>>
    /\ UNCHANGED exceptSelect

InitSelect ==
    /\ sbImage \in Images
    /\ sbDetections \in DetectionLists(sbImage)
    /\ sbResult = [called |-> FALSE, value |-> <<>>, detections |-> <<>>]
    /\ SessionIdle /\ SmootherIdle /\ CtlIdle
    /\ DetectorIdle /\ ValidatorIdle /\ CameraIdle /\ FrameIdle /\ HistoryIdle

NextSelect == CallSelectBestFace

SpecSelect == InitSelect /\ [][NextSelect]_vars

---------------------------------------------------------------------------
\* C21: selectBestFace returns null if and only if the detection list is
\* empty.  Otherwise it returns an element of the input whose score
\* 0.7 * (area / (imageWidth * imageHeight)) + 0.3 * (1 - normalized distance
\* of the face centre from the image centre) is maximal, the earliest such
\* element on ties, and it leaves the input list unmodified.

\* The score of the claim for detection i, in units of 1 / (20 * W * H): the
\* distance d is the square root of ((cx - W/2) / W)^2 + ((cy - H/2) / H)^2,
\* in units of 1 / (2 * W * H).
C21_Score(i) ==
    LET b == sbDetections[i].boundingBox
        W == sbImage.width
        H == sbImage.height
        d == sqrtBetween((2 * b.x + b.width - W) * (2 * b.x + b.width - W) * H * H
                           + (2 * b.y + b.height - H) * (2 * b.y + b.height - H) * W * W,
                         0, 2 * W * H)
    IN  7 * 2 * b.width * b.height + 3 * (2 * W * H - d)

C21_BestFace ==
    sbResult.called =>
        /\ (sbResult.value = <<>>) <=> (sbDetections = <<>>)
        /\ sbDetections # <<>> =>
              \E i \in 1..Len(sbDetections) :
                  /\ sbResult.value = sbDetections[i]
                  /\ \A j \in 1..Len(sbDetections) : C21_Score(j) <= C21_Score(i)
                  /\ \A j \in 1..(i - 1) : C21_Score(j) < C21_Score(i)
        /\ sbResult.detections = sbDetections

\* Three detections, the last two tied for the best score, the earlier of
\* the two returned.
C21_Witness ==
    /\ sbResult.called
    /\ Len(sbDetections) = 3
    /\ sbDetections[2] # sbDetections[3]
    /\ C21_Score(2) = C21_Score(3)
    /\ C21_Score(1) < C21_Score(2)
    /\ sbResult.value = sbDetections[2]

---------------------------------------------------------------------------
(* FrameProcessor: one instance, called through its public methods in any   *)
(* order, and the clock performance.now(), which never runs backwards.      *)

MaxTime == 2        \* the clock runs from 0 to MaxTime milliseconds

FPS_SAMPLE_SIZE == 30
HAVE_CURRENT_DATA == 2      \* HTMLMediaElement.HAVE_CURRENT_DATA

\* The video elements offered to captureFrame: readyState HAVE_METADATA or
\* HAVE_CURRENT_DATA (either side of the test), and the frame size.
Videos == [readyState : {1, 2}, videoWidth : {0, 640}, videoHeight : {0, 480}]

\* Mutant of recordFrameTimestamp: the oldest timestamp is never dropped.
recordFrameTimestamp_NoShift(timestamps, t) == Append(timestamps, t)

\* recordFrameTimestamp(): push performance.now(), shift beyond FPS_SAMPLE_SIZE.
recordFrameTimestamp(timestamps, t) ==
    LET pushed == Append(timestamps, t)
    IN  IF Len(pushed) > FPS_SAMPLE_SIZE THEN Tail(pushed) ELSE pushed

\* The error captureFrame throws for a video element, "none" if it does not.
captureError(video) ==
    IF video.readyState < HAVE_CURRENT_DATA THEN "Video element is not ready"
    ELSE IF video.videoWidth = 0 \/ video.videoHeight = 0
         THEN "Video dimensions are invalid"
    ELSE "none"

\* Mutant of captureFrame: the timestamp is recorded before the checks.
captureFrame_RecordsFirst(timestamps, video, t) ==
    [error |-> captureError(video),
     timestamps |-> recordFrameTimestamp(timestamps, t)]

\* captureFrame(videoElement) at time t: the error thrown and the timestamps
\* afterwards; the timestamp is recorded after the frame was drawn and read.
captureFrame(timestamps, video, t) ==
    IF captureError(video) # "none"
    THEN [error |-> captureError(video), timestamps |-> timestamps]
    ELSE [error |-> "none", timestamps |-> recordFrameTimestamp(timestamps, t)]

\* getFPS(): Math.round((frameCount / timeSpan) * 1000), halves rounded up.
getFPS(timestamps) ==
    IF Len(timestamps) < 2 THEN 0
    ELSE LET timeSpan == timestamps[Len(timestamps)] - timestamps[1]
             frameCount == Len(timestamps) - 1
         IN  IF timeSpan = 0 THEN 0
             ELSE (2 * 1000 * frameCount + timeSpan) \div (2 * timeSpan)

\* Mutant of resetFPS: the timestamps survive.
resetFPS_Keeps(timestamps) == timestamps

\* resetFPS(): the timestamps afterwards.
resetFPS(timestamps) == <<>>

FpEvent(name, error, fps) == [name |-> name, error |-> error, fps |-> fps]

CaptureFrame(video) ==
    LET r == captureFrame(frameTimestamps, video, now)
    IN  /\ frameTimestamps' = r.timestamps
        /\ captured' = IF r.error # "none" \/ captured > FPS_SAMPLE_SIZE
                       THEN captured ELSE captured + 1
        /\ fpEv' = FpEvent("captureFrame", r.error, 0)
        /\ UNCHANGED now
        /\ UNCHANGED exceptFrame

GetFPS ==
    /\ fpEv' = FpEvent("getFPS", "none", getFPS(frameTimestamps))
    /\ UNCHANGED <<frameTimestamps, now, captured>>
    /\ UNCHANGED exceptFrame

ResetFPS ==
    /\ frameTimestamps' = resetFPS(frameTimestamps)
    /\ captured' = 0
    /\ fpEv' = FpEvent("resetFPS", "none", 0)
    /\ UNCHANGED now
    /\ UNCHANGED exceptFrame

\* dispose(): the canvas is shrunk to 0 x 0 and the timestamps are dropped.
DisposeProcessor ==
    /\ frameTimestamps' = <<>>
    /\ captured' = 0
    /\ fpEv' = FpEvent("dispose", "none", 0)
    /\ UNCHANGED now
    /\ UNCHANGED exceptFrame

\* Time passes between two calls.
Tick ==
    /\ now < MaxTime
    /\ now' = now + 1
    /\ UNCHANGED <<frameTimestamps, captured, fpEv>>
    /\ UNCHANGED exceptFrame

InitFrame ==
    /\ FrameIdle
    /\ SessionIdle /\ SmootherIdle /\ CtlIdle
    /\ DetectorIdle /\ ValidatorIdle /\ CameraIdle /\ SelectIdle /\ HistoryIdle

NextFrame ==
    \/ \E video \in Videos : CaptureFrame(video)
    \/ GetFPS
    \/ ResetFPS
    \/ DisposeProcessor
    \/ Tick

SpecFrame == InitFrame /\ [][NextFrame]_vars

---------------------------------------------------------------------------
\* C22: captureFrame fails without side effect.  For a video element that is
\* not ready it throws 'Video element is not ready'; for one that is ready
\* but has width or height 0 it throws 'Video dimensions are invalid'.  In
\* both cases no frame timestamp is recorded, and getFPS() returns what it
\* returned before the call.
C22_FailsWithoutSideEffect ==
    [][\A video \in Videos :
          CaptureFrame(video) =>
             /\ video.readyState < HAVE_CURRENT_DATA =>
                   /\ fpEv'.error = "Video element is not ready"
                   /\ frameTimestamps' = frameTimestamps
                   /\ getFPS(frameTimestamps') = getFPS(frameTimestamps)
             /\ (/\ video.readyState >= HAVE_CURRENT_DATA
                 /\ (video.videoWidth = 0 \/ video.videoHeight = 0)) =>
                   /\ fpEv'.error = "Video dimensions are invalid"
                   /\ frameTimestamps' = frameTimestamps
                   /\ getFPS(frameTimestamps') = getFPS(frameTimestamps)]_vars

\* A failed capture after frames were captured at different times: the frame
\* rate is still the non-zero rate of those frames.
C22_Witness ==
    /\ fpEv.name = "captureFrame"
    /\ fpEv.error = "Video dimensions are invalid"
    /\ captured = 2
    /\ getFPS(frameTimestamps) > 0

---------------------------------------------------------------------------
\* C23: getFPS() returns 0 whenever fewer than two frames have been captured
\* since construction or the last resetFPS() / dispose(), and whenever the
\* first and the last recorded timestamp are equal; it never returns a
\* negative number (and the division by the time span is never by zero).
C23_ZeroOrPositive ==
    fpEv.name = "getFPS" =>
        /\ captured < 2 => fpEv.fps = 0
        /\ (/\ frameTimestamps # <<>>
            /\ frameTimestamps[1] = frameTimestamps[Len(frameTimestamps)]) =>
              fpEv.fps = 0
        /\ fpEv.fps >= 0

\* getFPS() on several frames that carry one and the same timestamp.
C23_Witness ==
    /\ fpEv.name = "getFPS"
    /\ captured >= 3
    /\ frameTimestamps[1] = frameTimestamps[Len(frameTimestamps)]
    /\ fpEv.fps = 0
    /\ now > 0

---------------------------------------------------------------------------
\* C29: the timestamps are a bounded FIFO.  After any sequence of
\* captureFrame, resetFPS and dispose calls the buffer holds at most 30
\* timestamps in non-decreasing order; recording a 31st drops the oldest, so
\* the buffer is always the (at most 30) most recent captures.
C29_BoundedFifo ==
    /\ [](/\ Len(frameTimestamps) <= 30
          /\ Len(frameTimestamps) = IF captured > 30 THEN 30 ELSE captured
          /\ \A i \in 1..(Len(frameTimestamps) - 1) :
                frameTimestamps[i] <= frameTimestamps[i + 1])
    /\ [][\A video \in Videos :
             (CaptureFrame(video) /\ fpEv'.error = "none") =>
                frameTimestamps' =
                   IF Len(frameTimestamps) < 30 THEN Append(frameTimestamps, now)
                   ELSE Append(Tail(frameTimestamps), now)]_vars

\* A 31st frame was recorded and the buffer still holds 30 timestamps, not
\* all of them equal.
C29_Witness ==
    /\ captured = 31
    /\ Len(frameTimestamps) = 30
    /\ frameTimestamps[1] < frameTimestamps[30]
    /\ fpEv.name = "captureFrame"

---------------------------------------------------------------------------
\* C24: addValue accepts unconditionally in the degenerate cases.  When the
\* window holds fewer than 2 samples, or samples that are all equal (standard
\* deviation 0), the offered value is appended (the oldest sample leaving a
\* full window) and is not reported as an outlier, whatever its magnitude.
C24_DegenerateAccepts ==
    [][(/\ op'.name = "addValue"
        /\ \/ Len(window) < 2
           \/ \A i, j \in 1..Len(window) : window[i] = window[j]) =>
          /\ ~lastOutlier'
          /\ window' = IF Len(window) < windowSize
                       THEN Append(window, op'.arg)
                       ELSE Append(Tail(window), op'.arg)]_vars

\* A value far from two equal samples has just been appended to them.
C24_Witness ==
    /\ op.name = "addValue"
    /\ op.lenBefore = 2
    /\ ~lastOutlier
    /\ window = <<60, 60, 90>>

---------------------------------------------------------------------------
\* C25: the window is the most recent accepted samples in arrival order.
\* After any sequence of addValue calls since construction or the last
\* reset, the window equals the last min(windowSize, number of accepted
\* values) accepted values, oldest first, and getSmoothedValue() returns the
\* arithmetic mean of exactly those values.
C25_MostRecentAccepted ==
    LET n == Len(accepted)
        k == IF n < windowSize THEN n ELSE windowSize
        recent == SubSeq(accepted, n - k + 1, n)
    IN  /\ window = recent
        /\ (op.name = "getSmoothedValue" /\ k > 0) =>
              /\ lastSmoothed[2] > 0
              /\ lastSmoothed[1] * k = Sum(recent) * lastSmoothed[2]

\* More values were accepted than the window holds, the evicted one differs
\* from the oldest kept, and the mean has just been read.
C25_Witness ==
    /\ op.name = "getSmoothedValue"
    /\ windowSize >= 2
    /\ Len(accepted) > windowSize
    /\ accepted[Len(accepted) - windowSize] # window[1]
    /\ window[1] # window[2]

---------------------------------------------------------------------------
\* C26: no camera track acquired through a CameraManager stays live past
\* release().  After a release() that no initialize() call is still pending
\* at, every track of every MediaStream that initialize() obtained from
\* getUserMedia has been stopped.
C26_NoLiveTrackAfterRelease ==
    [][(Release /\ \A n \in Inits : camInit[n] # "pending") =>
          \A n \in Inits : camTrack'[n] # "live"]_vars

---------------------------------------------------------------------------
(* The detector whose FaceMesh answers every image submitted to it, with a  *)
(* result or with a failed send().                                          *)
EveryImageAnswered ==
    \A m \in Meshes :
        WF_vars((\E results \in Results("face") \cup Results("eye") :
                    OnResults(results, m))
                \/ SendRejected(m))

SpecDetectorFair == SpecDetector /\ EveryImageAnswered

---------------------------------------------------------------------------
\* C27: every detection promise settles.  Provided the FaceMesh answers every
\* submitted image with a result or a send failure, the promise returned by
\* a detect() / detectEyes() call on a ready detector is eventually resolved
\* or rejected, also when a second call is made before the first result
\* arrives and when dispose() is called while a call is pending.
C27_EveryPromiseSettles ==
    \A c \in Calls :
        (detPromise[c].state = "pending")
            ~> (detPromise[c].state \in {"resolved", "rejected"})

---------------------------------------------------------------------------
\* C28: restart never orphans a camera stream.  Under every interleaving of
\* restart clicks with the asynchronous steps of initializeCamera(), a stream
\* with live tracks is held by the CameraManager that the module-level
\* variable cameraManager refers to, so at most one acquired stream has live
\* tracks at any time.
C28_NoOrphanStream ==
    /\ \A i \in Starts :
          track[i] = "live" => (cameraManager = i /\ cmStream[i] = "held")
    /\ Cardinality({i \in Starts : track[i] = "live"}) <= 1

---------------------------------------------------------------------------
\* C30: getLastEyePosition() returns the eye position of the most recent
\* result that contained a face.  The stored position is null at
\* construction; a result with a face replaces it by that result's eye
\* position; a result without face landmarks resolves the pending
\* detectEyes() with null and leaves it unchanged; dispose() makes it null;
\* nothing else changes it.
C30_LastEyePosition ==
    /\ (detKind = "eye" /\ detEv.name = "new") => lastEyePosition = <<>>
    /\ [][detKind = "eye" =>
            /\ \A results \in Results("eye"), m \in Meshes :
                  OnResults(results, m) =>
                     IF results.faces > 0
                     THEN /\ lastEyePosition' = eyePositionOf(results)
                          /\ lastEyePosition' # <<>>
                     ELSE /\ lastEyePosition' = lastEyePosition
                          /\ (/\ detPending # 0
                              /\ detPromise[detPending].state = "pending") =>
                                 /\ detPromise'[detPending].state = "resolved"
                                 /\ detPromise'[detPending].value = <<>>
            /\ Dispose => lastEyePosition' = <<>>
            /\ (/\ ~Dispose
                /\ ~\E results \in Results("eye"), m \in Meshes :
                       OnResults(results, m)) =>
                  lastEyePosition' = lastEyePosition]_vars

\* Two detectEyes() calls in turn: the first result had a face, the second
\* had none; the second promise resolved with null and the position of the
\* first result is still stored.
C30_Witness ==
    /\ detKind = "eye"
    /\ detEv.name = "onResults"
    /\ detSent = <<>>
    /\ detPromise[1].state = "resolved" /\ detPromise[1].image = 1
    /\ detPromise[1].value # <<>>
    /\ detPromise[2].state = "resolved" /\ detPromise[2].image = 2
    /\ detPromise[2].value = <<>>
    /\ lastEyePosition = detPromise[1].value

---------------------------------------------------------------------------
\* C3: MEASUREMENT_COMPLETE is entered only from MEASURING, by a frame after
\* which the window is full, the last sample was not flagged an outlier and
\* the smoothed value lies within [IPD_MIN, IPD_MAX].
C3_CompleteOnlyWhenTrustworthy ==
    [][ (ctlState' = "measurement_complete" /\ ctlState # "measurement_complete")
        => ( /\ ctlState = "measuring"
             /\ op'.name = "frame"
             /\ Len(window') = windowSize
             /\ ~lastOutlier'
             /\ IPD_MIN * Len(window') <= Sum(window')
             /\ Sum(window') <= IPD_MAX * Len(window') ) ]_vars

\* MEASUREMENT_COMPLETE was entered from MEASURING.
C3_Witness ==
    /\ ctlState = "measurement_complete"
    /\ prevState = "measuring"
    /\ op.name = "frame"

\* A step of the controller that ends in ERROR.
ErrorStep == NextCtl /\ ctlState' = "error"

C8_WindowEmptyOnReentry ==
    ctlState \in {"initializing", "waiting_for_face"} => window = <<>>

\* WAITING_FOR_FACE was re-entered from MEASURING with samples in the window.
C8_Witness ==
    /\ ctlState = "waiting_for_face"
    /\ prevState = "measuring"
    /\ op.lenBefore > 0

=============================================================================
